---- MODULE Spec2Model ----
(***************************************************************************)
(* The availability cache of data.ts (stale-while-revalidate over a        *)
(* retrying fetcher), with the request-scoped cancellation signal that     *)
(* tool.ts hands to it; then, each under a specification of its own,       *)
(* fetchWithRetries with its retry log (SpecFetch), sortRecommendations    *)
(* (SpecSort), estimateWalkMinutes (SpecWalk), normalizeFacilityMetadata   *)
(* (SpecNormalize), the facility cache (SpecFacilities), the two caches    *)
(* side by side (SpecCaches), the availability cache in unbounded time     *)
(* (SpecLive) and with the progress of its refreshes (SpecProgress), and   *)
(* one HTTP request of index.ts (SpecRequest).                             *)
(*                                                                         *)
(* One step of the model is one run-to-completion turn of the JavaScript   *)
(* event loop: the synchronous prefix of a getAvailability call, the       *)
(* arrival of an upstream response together with every continuation it     *)
(* resumes, the firing of a timer.  Date.now() is the variable clock; it   *)
(* advances in steps of TickMs between turns.  How many turns a fetch      *)
(* takes is not constrained: config.requestTimeoutMs is an input           *)
(* (REQUEST_TIMEOUT_MS, no upper limit), so three attempts may well last   *)
(* longer than availabilityTtlMs.                                          *)
(***************************************************************************)
EXTENDS Integers, Sequences, FiniteSets, Bags, TLC

(***************************************************************************)
(* Bounds of the model.                                                    *)
(***************************************************************************)
\* number of clock advances explored
MaxTicks == 1
\* number of upstream refreshes (synchronous or background) ever started
MaxRefreshes == 3
\* granularity of the clock, in ms
TickMs == 60000
\* number of calls that go upstream when the two caches are explored side by side
MaxCalls == 2

(***************************************************************************)
(* Program constants.                                                      *)
(***************************************************************************)
MAX_ATTEMPTS == 3
RETRY_STATUS_CODES == {429, 500, 502, 503, 504}
availabilityTtlMs == 60000

(***************************************************************************)
(* JavaScript values as they come out of JSON.parse: a tag, and the string *)
(* or the number the value carries (the field not used is "" or 0).        *)
(***************************************************************************)
Undefined == [t |-> "undefined", s |-> "", n |-> 0]
Null == [t |-> "null", s |-> "", n |-> 0]
Str(x) == [t |-> "string", s |-> x, n |-> 0]
Num(k) == [t |-> "number", s |-> "", n |-> k]

\* a ?? b ?? c ... over the sequence of operands
RECURSIVE Coalesce(_)
Coalesce(vs) ==
    IF Len(vs) = 1 \/ Head(vs).t \notin {"undefined", "null"}
    THEN Head(vs)
    ELSE Coalesce(Tail(vs))

\* !value is false
Truthy(v) ==
    CASE v.t = "undefined" -> FALSE
      [] v.t = "null" -> FALSE
      [] v.t = "string" -> v.s # ""
      [] v.t = "number" -> v.n # 0
      [] OTHER -> TRUE

Digit == <<"0", "1", "2", "3", "4", "5", "6", "7", "8", "9">>

\* the decimal numeral of a natural number
RECURSIVE Numeral(_)
Numeral(k) ==
    IF k < 10 THEN Digit[k + 1] ELSE Numeral(k \div 10) \o Digit[(k % 10) + 1]

\* String(value)
StringOf(v) ==
    CASE v.t = "string" -> v.s
      [] v.t = "number" -> IF v.n < 0 THEN "-" \o Numeral(-v.n) ELSE Numeral(v.n)
      [] OTHER -> v.t

\* the strings of the model that Number() reads as a number
NumericText == [s \in {"", "0", "3", "7"} |-> CASE s = "3" -> 3 [] s = "7" -> 7 [] OTHER -> 0]

\* Number(value): fin is Number.isFinite of the result
NumberOf(v) ==
    CASE v.t = "number" -> [fin |-> TRUE, n |-> v.n]
      [] v.t = "null" -> [fin |-> TRUE, n |-> 0]
      [] v.t = "string" ->
            IF v.s \in DOMAIN NumericText
            THEN [fin |-> TRUE, n |-> NumericText[v.s]]
            ELSE [fin |-> FALSE, n |-> 0]
      [] OTHER -> [fin |-> FALSE, n |-> 0]

toNumberOrNull(value) ==
    IF value.t \in {"null", "undefined"}
    THEN Null
    ELSE LET num == NumberOf(value) IN IF num.fin THEN Num(num.n) ELSE Null

toStringOrNull(value) ==
    IF value.t \in {"null", "undefined"}
    THEN Null
    ELSE LET str == StringOf(value) IN IF str # "" THEN Str(str) ELSE Null

(***************************************************************************)
(* Upstream records.  An item of the response array is an object (a        *)
(* function from the property names it has to values) or something else.   *)
(***************************************************************************)
NoProps == [k \in {} |-> Undefined]
Obj(props) == [object |-> TRUE, props |-> props]
NonObject == [object |-> FALSE, props |-> NoProps]

\* raw.name
Prop(raw, name) == IF name \in DOMAIN raw THEN raw[name] ELSE Undefined

NoRecord == [some |-> FALSE, id |-> "", freeSpaces |-> Null, capacity |-> Null, lastUpdated |-> Null]

normalizeAvailability(raw) ==
    LET idValue == Coalesce(<<Prop(raw, "id"), Prop(raw, "Id"),
                              Prop(raw, "facilityId"), Prop(raw, "FacilityId")>>)
    IN  IF ~Truthy(idValue)
        THEN NoRecord
        ELSE [some |-> TRUE,
              id |-> StringOf(idValue),
              freeSpaces |-> toNumberOrNull(Coalesce(<<Prop(raw, "freeSpaces"), Prop(raw, "FreeSpaces"),
                                                        Prop(raw, "vacant"), Prop(raw, "Vacant")>>)),
              capacity |-> toNumberOrNull(Coalesce(<<Prop(raw, "capacity"), Prop(raw, "Capacity")>>)),
              lastUpdated |-> toStringOrNull(Coalesce(<<Prop(raw, "lastUpdated"), Prop(raw, "LastUpdated"),
                                                         Prop(raw, "updatedAt"), Prop(raw, "UpdatedAt"),
                                                         Prop(raw, "timestamp"), Prop(raw, "Timestamp")>>))]

\* new Map()
EmptyMap == [k \in {} |-> NoRecord]

\* map.set(key, value)
MapSet(map, key, value) ==
    [k \in DOMAIN map \cup {key} |-> IF k = key THEN value ELSE map[k]]

\* the for loop of refreshAvailability over rawData, from item i on
RECURSIVE CollectAvailability(_, _, _)
CollectAvailability(items, i, availability) ==
    IF i > Len(items)
    THEN availability
    ELSE IF ~items[i].object
         THEN CollectAvailability(items, i + 1, availability)
         ELSE LET normalized == normalizeAvailability(items[i].props)
              IN  IF normalized.some
                  THEN CollectAvailability(items, i + 1,
                                           MapSet(availability, normalized.id, normalized))
                  ELSE CollectAvailability(items, i + 1, availability)

(***************************************************************************)
(* The JSON bodies the upstream answers a 2xx with.                        *)
(***************************************************************************)
BodyA ==
    [array |-> TRUE,
     items |-> << Obj([id |-> Str("a"), freeSpaces |-> Num(5), capacity |-> Num(7),
                       lastUpdated |-> Str("t1")]),
                  Obj([Id |-> Str("b"), vacant |-> Str("3")]) >>]

BodyB ==
    [array |-> TRUE,
     items |-> << Obj([id |-> Str("a"), freeSpaces |-> Num(3)]),
                  NonObject,
                  Obj([freeSpaces |-> Num(7)]),
                  Obj([id |-> Null, facilityId |-> Num(7), FreeSpaces |-> Str("n/a")]),
                  Obj([id |-> Str("a"), freeSpaces |-> Num(0), timestamp |-> Str("t2")]) >>]

BodyNotArray == [array |-> FALSE, items |-> <<>>]

Bodies == [k \in {"A", "B", "N"} |-> CASE k = "A" -> BodyA [] k = "B" -> BodyB [] OTHER -> BodyNotArray]

\* the statuses the upstream answers a non-2xx with
Statuses == {404, 503}

\* refreshAvailability once fetchWithRetries has returned rawData
refreshAvailability(rawData) ==
    IF ~rawData.array
    THEN [ok |-> FALSE, data |-> EmptyMap, err |-> "shape"]
    ELSE [ok |-> TRUE, data |-> CollectAvailability(rawData.items, 1, EmptyMap), err |-> ""]

(***************************************************************************)
(* State.                                                                  *)
(***************************************************************************)
VARIABLES
    clock,              \* Date.now()
    availabilityCache,  \* availabilityCache.entry
    tasks,              \* the refreshAvailability calls in flight (a bag)
    started,            \* number of refreshAvailability calls made so far
    lastOk,             \* key of the body of the latest refresh that succeeded
    lastRevalidated,    \* the latest background refresh that succeeded: when, with which body
    event               \* what the last step did and what getAvailability returned

vars == <<clock, availabilityCache, tasks, started, lastOk, lastRevalidated, event>>

\* The state of the parts of the program the availability cache shares
\* nothing with; each is specified further down and stands still in the
\* specifications of the others.
VARIABLES
    call,               \* one fetchWithRetries call: its loop, its log, its outcome
    facilityCache,      \* facilityCache.entry
    facilityTasks,      \* the getFacilities calls waiting for their fetch (a bag)
    facilityStarted,    \* number of getFacilities calls that went upstream so far
    facilityEvent,      \* what the last step did and what getFacilities returned
    got,                \* what the upstream answered in the last step, if it answered
    sorting,            \* one sortRecommendations call: its argument and its result
    walking,            \* one estimateWalkMinutes call: its argument and its result
    normalizing,        \* one normalizeFacilityMetadata call: its argument and its result
    request             \* one HTTP request: the calls it waits for and its response

fetchVars == <<call>>
facilityVars == <<facilityCache, facilityTasks, facilityStarted, facilityEvent>>
sortVars == <<sorting>>
restVars == <<walking, normalizing, request>>

\* availabilityCache.entry === undefined; revalidatePromise is whether the
\* entry holds a promise (the code never compares two promises)
NoEntry == [present |-> FALSE, value |-> EmptyMap, expiresAt |-> 0, revalidatePromise |-> FALSE]

(***************************************************************************)
(* What a step did.  name is "getAvailability" when a call is made (path   *)
(* is the way it took through the function; kind "none" means the caller   *)
(* is left waiting), "syncReturn" when a waiting call ends, "revalidated"  *)
(* and "revalidateFailed" when a background refresh ends, "internal"       *)
(* otherwise.  kind, data, stale, err are what the call returned or threw. *)
(***************************************************************************)
Event(name, path, kind, data, stale, err) ==
    [name |-> name, path |-> path, kind |-> kind, data |-> data, stale |-> stale, err |-> err]

Quiet(name, path) == Event(name, path, "none", EmptyMap, FALSE, "")

\* getAvailability returns {data, stale}
Returned(name, path, data, stale) == Event(name, path, "value", data, stale, "")

\* getAvailability rejects
Thrown(name, path, err) == Event(name, path, "error", EmptyMap, FALSE, err)

NeverRevalidated == [some |-> FALSE, at |-> 0, key |-> ""]

Init ==
    /\ clock = 0
    /\ availabilityCache = NoEntry
    /\ tasks = EmptyBag
    /\ started = 0
    /\ lastOk = ""
    /\ lastRevalidated = NeverRevalidated
    /\ event = Quiet("internal", "")

(***************************************************************************)
(* A refreshAvailability call in flight: a promise of getAvailability.     *)
(*   kind     "sync" (awaited by its caller) or "background"               *)
(*   attempt  the loop variable of fetchWithRetries                        *)
(*   phase    "fetch" (awaiting fetch) or "sleep" (awaiting sleep(delay))  *)
(*   delay    the backoff being slept, in ms                               *)
(*   aborted  externalSignal.aborted, where externalSignal is the          *)
(*            overallController.signal of the request that made the call   *)
(*   now      Date.now() as read at the top of getAvailability (kept for   *)
(*            the synchronous path, the only one that reads it later)      *)
(*   cached   availabilityCache.entry as read at the top of getAvailability*)
(***************************************************************************)
NewTask(kind, cached, now) ==
    [kind |-> kind, attempt |-> 1, phase |-> "fetch", delay |-> 0, aborted |-> FALSE,
     now |-> IF kind = "sync" THEN now ELSE 0, cached |-> cached]

Running == BagToSet(tasks)

Add(bag, t) == bag (+) SetToBag({t})

Remove(bag, t) == bag (-) SetToBag({t})

Fetching(t) == t \in Running /\ t.phase = "fetch"

Sleeping(t) == t \in Running /\ t.phase = "sleep"

(***************************************************************************)
(* getAvailability: the tests it makes on the entry it read.               *)
(***************************************************************************)
\* IsLive with the comparison off by one: an entry is still served as fresh
\* at the very millisecond it expires
IsLiveInclusive(cached, now) == cached.present /\ cached.expiresAt >= now

IsLive(cached, now) == cached.present /\ cached.expiresAt > now

\* Branch without the test of revalidatePromise: every call on an expired
\* entry starts a refresh
BranchNoSingleFlight(cached, now) ==
    IF IsLive(cached, now) THEN "fresh"
    ELSE IF cached.present /\ cached.expiresAt <= now THEN "revalidate"
    ELSE "sync"

\* Branch where a call that finds a refresh in flight waits for fresh data
BranchAwaitInFlight(cached, now) ==
    IF IsLive(cached, now) THEN "fresh"
    ELSE IF cached.present /\ cached.expiresAt <= now /\ ~cached.revalidatePromise THEN "revalidate"
    ELSE "sync"

Branch(cached, now) ==
    IF IsLive(cached, now) THEN "fresh"
    ELSE IF cached.present /\ cached.revalidatePromise THEN "inflight"
    ELSE IF cached.present /\ cached.expiresAt <= now THEN "revalidate"
    ELSE "sync"

\* the entry installed while the background refresh runs
InstalledEntry(cached) ==
    [present |-> TRUE, value |-> cached.value, expiresAt |-> cached.expiresAt,
     revalidatePromise |-> TRUE]

\* RevalidatedEntry updating the map of the old entry in place instead of
\* replacing it
RevalidatedEntryMerged(data, now) ==
    [present |-> TRUE,
     value |-> [k \in DOMAIN data \cup DOMAIN availabilityCache.value |->
                    IF k \in DOMAIN data THEN data[k] ELSE availabilityCache.value[k]],
     expiresAt |-> now + availabilityTtlMs,
     revalidatePromise |-> FALSE]

\* the new entry that still carries the promise of the refresh that wrote it
RevalidatedEntryKeepsHandle(data, now) ==
    [present |-> TRUE, value |-> data, expiresAt |-> now + availabilityTtlMs,
     revalidatePromise |-> TRUE]

\* the entry the .then callback of the background refresh stores
RevalidatedEntry(data, now) ==
    [present |-> TRUE, value |-> data, expiresAt |-> now + availabilityTtlMs,
     revalidatePromise |-> FALSE]

\* the .catch that leaves the settled promise in the entry
ClearedEntryKeepsHandle(entry) == entry

\* the .catch callback of the background refresh
ClearedEntry(entry) ==
    IF entry.present THEN [entry EXCEPT !.revalidatePromise = FALSE] ELSE entry

\* the entry the synchronous path stores; now was read before the fetch
SyncEntry(fresh, now) ==
    [present |-> TRUE, value |-> fresh, expiresAt |-> now + availabilityTtlMs,
     revalidatePromise |-> FALSE]

\* the catch block of the synchronous path
SyncCatch(cached, err) ==
    IF cached.present
    THEN Returned("syncReturn", "sync", cached.value, TRUE)
    ELSE Thrown("syncReturn", "sync", err)

(***************************************************************************)
(* getAvailability, one action for each way through it.                    *)
(***************************************************************************)
GetAvailabilityFresh ==
    /\ Branch(availabilityCache, clock) = "fresh"
    /\ event' = Returned("getAvailability", "fresh", availabilityCache.value, FALSE)
    /\ UNCHANGED <<clock, availabilityCache, tasks, started, lastOk, lastRevalidated>>

GetAvailabilityInFlight ==
    /\ Branch(availabilityCache, clock) = "inflight"
    /\ event' = Returned("getAvailability", "inflight", availabilityCache.value, TRUE)
    /\ UNCHANGED <<clock, availabilityCache, tasks, started, lastOk, lastRevalidated>>

GetAvailabilityRevalidate ==
    /\ Branch(availabilityCache, clock) = "revalidate"
    /\ started < MaxRefreshes
    /\ started' = started + 1
    /\ tasks' = Add(tasks, NewTask("background", availabilityCache, clock))
    /\ availabilityCache' = InstalledEntry(availabilityCache)
    /\ event' = Returned("getAvailability", "revalidate", availabilityCache.value, TRUE)
    /\ UNCHANGED <<clock, lastOk, lastRevalidated>>

GetAvailabilitySync ==
    /\ Branch(availabilityCache, clock) = "sync"
    /\ started < MaxRefreshes
    /\ started' = started + 1
    /\ tasks' = Add(tasks, NewTask("sync", availabilityCache, clock))
    /\ event' = Quiet("getAvailability", "sync")
    /\ UNCHANGED <<clock, availabilityCache, lastOk, lastRevalidated>>

(***************************************************************************)
(* How a refreshAvailability call ends, and what resumes then.             *)
(***************************************************************************)
Fulfilled(t, data, key) ==
    /\ tasks' = Remove(tasks, t)
    /\ lastOk' = key
    /\ IF t.kind = "background"
       THEN /\ availabilityCache' = RevalidatedEntry(data, clock)
            /\ lastRevalidated' = [some |-> TRUE, at |-> clock, key |-> key]
            /\ event' = Quiet("revalidated", "")
       ELSE /\ availabilityCache' = SyncEntry(data, t.now)
            /\ lastRevalidated' = lastRevalidated
            /\ event' = Returned("syncReturn", "sync", data, FALSE)
    /\ UNCHANGED <<clock, started>>

Rejected(t, err) ==
    /\ tasks' = Remove(tasks, t)
    /\ IF t.kind = "background"
       THEN /\ availabilityCache' = ClearedEntry(availabilityCache)
            /\ event' = Event("revalidateFailed", "", "none", EmptyMap, FALSE, err)
       ELSE /\ availabilityCache' = availabilityCache
            /\ event' = SyncCatch(t.cached, err)
    /\ UNCHANGED <<clock, started, lastOk, lastRevalidated>>

(***************************************************************************)
(* fetchWithRetries.                                                       *)
(***************************************************************************)
\* the delay that does not grow
BackoffFlat(attempt) == 200

Backoff(attempt) == 200 * 2 ^ (attempt - 1)

\* log.info('Retrying ...'); await sleep(delay)
Sleep(t) ==
    /\ tasks' = Add(Remove(tasks, t), [t EXCEPT !.phase = "sleep", !.delay = Backoff(t.attempt)])
    /\ event' = Quiet("internal", "")
    /\ UNCHANGED <<clock, availabilityCache, started, lastOk, lastRevalidated>>

\* the catch block; aborted is externalSignal.aborted when it runs
CatchBlock(t, attempt, aborted, err) ==
    IF aborted
    THEN Rejected(t, "aborted")
    ELSE IF attempt >= MAX_ATTEMPTS
         THEN Rejected(t, err)
         ELSE Sleep(t)

\* a 2xx response whose body parses
AttemptOk(t, key) ==
    /\ Fetching(t)
    /\ LET result == refreshAvailability(Bodies[key])
       IN  IF result.ok THEN Fulfilled(t, result.data, key) ELSE Rejected(t, result.err)

\* a response that is not ok
AttemptStatus(t, status) ==
    /\ Fetching(t)
    /\ IF status \in RETRY_STATUS_CODES /\ t.attempt < MAX_ATTEMPTS
       THEN Sleep(t)
       ELSE CatchBlock(t, t.attempt, t.aborted, "status")

\* fetch rejects: the network fails, the per-request timeout fires, the body is no JSON
AttemptThrows(t) ==
    /\ Fetching(t)
    /\ CatchBlock(t, t.attempt, t.aborted, "transport")

\* the timer of sleep(delay) fires and the loop starts the next attempt; with
\* the external signal aborted its fetch rejects at once
SleepDone(t) ==
    /\ Sleeping(t)
    /\ IF t.aborted
       THEN CatchBlock(t, t.attempt + 1, t.aborted, "transport")
       ELSE /\ tasks' = Add(Remove(tasks, t),
                            [t EXCEPT !.phase = "fetch", !.delay = 0, !.attempt = t.attempt + 1])
            /\ event' = Quiet("internal", "")
            /\ UNCHANGED <<clock, availabilityCache, started, lastOk, lastRevalidated>>

(***************************************************************************)
(* recommendFacility: the overall deadline of the request that made the    *)
(* call fires while the request is still running (it awaits getFacilities  *)
(* or this very call): overallController.abort(new Error(...)).  A fetch   *)
(* in progress rejects in the same turn.                                   *)
(***************************************************************************)
OverallTimeout(t) ==
    /\ t \in Running
    /\ ~t.aborted
    /\ IF t.phase = "fetch"
       THEN CatchBlock(t, t.attempt, TRUE, "transport")
       ELSE /\ tasks' = Add(Remove(tasks, t), [t EXCEPT !.aborted = TRUE])
            /\ event' = Quiet("internal", "")
            /\ UNCHANGED <<clock, availabilityCache, started, lastOk, lastRevalidated>>

\* time passes
Tick ==
    /\ clock < MaxTicks * TickMs
    /\ clock' = clock + TickMs
    /\ event' = Quiet("internal", "")
    /\ UNCHANGED <<availabilityCache, tasks, started, lastOk, lastRevalidated>>

\* the availability cache on its own
elsewhere == <<fetchVars, facilityVars, got, sortVars, restVars>>

Next ==
    \/ GetAvailabilityFresh /\ UNCHANGED elsewhere
    \/ GetAvailabilityInFlight /\ UNCHANGED elsewhere
    \/ GetAvailabilityRevalidate /\ UNCHANGED elsewhere
    \/ GetAvailabilitySync /\ UNCHANGED elsewhere
    \/ \E t \in Running, key \in DOMAIN Bodies : AttemptOk(t, key) /\ UNCHANGED elsewhere
    \/ \E t \in Running, status \in Statuses : AttemptStatus(t, status) /\ UNCHANGED elsewhere
    \/ \E t \in Running : AttemptThrows(t) /\ UNCHANGED elsewhere
    \/ \E t \in Running : SleepDone(t) /\ UNCHANGED elsewhere
    \/ \E t \in Running : OverallTimeout(t) /\ UNCHANGED elsewhere
    \/ Tick /\ UNCHANGED elsewhere

(***************************************************************************)
(* fetchWithRetries, one call on its own: the loop of lines 63-110, the    *)
(* retry log (log.info), the delays it sleeps and what it returns or       *)
(* throws.  The external signal is the one tool.ts passes down; its reason *)
(* is an Error (tool.ts:148), which line 95 throws as it is.               *)
(***************************************************************************)
\* What the upstream does with one attempt.  A response is its status with
\* its body: the parsed JSON of a 2xx (a key of Bodies), the text of any
\* other status.
Ok(key) == [kind |-> "ok", status |-> 200, text |-> "", key |-> key]
Status(status, text) == [kind |-> "status", status |-> status, text |-> text, key |-> ""]
\* a 2xx whose body is not JSON: response.json() rejects
Unparsable == [kind |-> "unparsable", status |-> 200, text |-> "", key |-> ""]
\* fetch rejects: the network failed, or AbortSignal.timeout fired
Throws == [kind |-> "throws", status |-> 0, text |-> "", key |-> ""]
\* fetch rejects because the external signal aborted during the attempt
Cancelled == [kind |-> "cancelled", status |-> 0, text |-> "", key |-> ""]

FetchStatuses == {404, 500, 503}
Texts == {"x", "y"}
FetchKeys == {"A", "B"}

Outcomes ==
    {Ok(key) : key \in FetchKeys} \cup {Status(s, x) : s \in FetchStatuses, x \in Texts}
        \cup {Unparsable, Throws}

\* lastError === undefined
NoError == [kind |-> "none", status |-> 0, text |-> ""]
\* new Error(`Request failed with status ${response.status}: ${body}`)
StatusError(status, text) == [kind |-> "status", status |-> status, text |-> text]
\* what fetch or response.json() rejected with
TransportError == [kind |-> "transport", status |-> 0, text |-> ""]
ParseError == [kind |-> "parse", status |-> 0, text |-> ""]
\* externalSignal.reason
AbortReason == [kind |-> "reason", status |-> 0, text |-> ""]
\* new Error(String(lastError ?? 'Request failed'))
RequestFailed == [kind |-> "requestFailed", status |-> 0, text |-> ""]

\* log.info('Retrying upstream request', {attempt, status, url, delay})
RetryLog(attempt, status, delay) ==
    [message |-> "Retrying upstream request", attempt |-> attempt, status |-> status,
     delay |-> delay, error |-> NoError]

\* log.info('Retrying upstream request after error', {attempt, url, delay, error})
ErrorRetryLog(attempt, delay, error) ==
    [message |-> "Retrying upstream request after error", attempt |-> attempt, status |-> 0,
     delay |-> delay, error |-> error]

NoCall ==
    [phase |-> "idle", attempt |-> 0, aborted |-> FALSE, lastError |-> NoError,
     received |-> <<>>, log |-> <<>>, slept |-> <<>>, value |-> "", error |-> NoError]

\* response.ok
IsOk(status) == status \in 200..299

\* the condition of line 76, without its bound on the attempt
RetriesStatusAlways(status, attempt) == status \in RETRY_STATUS_CODES

\* the condition of line 76
RetriesStatus(status, attempt) == status \in RETRY_STATUS_CODES /\ attempt < MAX_ATTEMPTS

\* log.info(...) then await sleep(delay)
LogAndSleep(c, entry) ==
    [c EXCEPT !.phase = "sleep", !.log = Append(@, entry), !.slept = Append(@, entry.delay)]

Return(c, key) == [c EXCEPT !.phase = "returned", !.value = key]

Throw(c, error) == [c EXCEPT !.phase = "thrown", !.error = error]

\* the loop is left: throw lastError instanceof Error ? lastError : new Error(...)
AfterLoop(c) == Throw(c, IF c.lastError.kind # "none" THEN c.lastError ELSE RequestFailed)

\* the catch block
Catch(c, error) ==
    IF c.aborted
    THEN Throw(c, AbortReason)
    ELSE LET d == [c EXCEPT !.lastError = error]
         IN  IF c.attempt >= MAX_ATTEMPTS
             THEN AfterLoop(d)
             ELSE LogAndSleep(d, ErrorRetryLog(c.attempt, Backoff(c.attempt), error))

\* the try block that logs a retry although the attempt got a 2xx
OnResponseLogsSuccess(c, r) ==
    IF ~IsOk(r.status)
    THEN IF RetriesStatus(r.status, c.attempt)
         THEN LogAndSleep(c, RetryLog(c.attempt, r.status, Backoff(c.attempt)))
         ELSE Catch(c, StatusError(r.status, r.text))
    ELSE IF r.kind = "unparsable"
         THEN Catch(c, ParseError)
         ELSE Return([c EXCEPT !.log = Append(@, RetryLog(c.attempt, r.status, 0))], r.key)

\* the try block once fetch has resolved with the response r
OnResponse(c, r) ==
    IF ~IsOk(r.status)
    THEN IF RetriesStatus(r.status, c.attempt)
         THEN LogAndSleep(c, RetryLog(c.attempt, r.status, Backoff(c.attempt)))
         ELSE Catch(c, StatusError(r.status, r.text))
    ELSE IF r.kind = "unparsable"
         THEN Catch(c, ParseError)
         ELSE Return(c, r.key)

\* one attempt ends with the outcome r
Settle(c, r) ==
    LET d == [c EXCEPT !.received = Append(@, r)]
    IN  CASE r.kind = "throws" -> Catch(d, TransportError)
          [] r.kind = "cancelled" -> Catch(d, AbortReason)
          [] OTHER -> OnResponse(d, r)

\* the call is made and issues its first attempt
Started(c) == [c EXCEPT !.phase = "fetch", !.attempt = 1]

FetchWithRetries ==
    /\ call.phase = "idle"
    /\ call' = Started(call)

\* the attempt in progress ends
AttemptSettles(r) ==
    /\ call.phase = "fetch"
    /\ call' = Settle(call, r)

\* sleep(delay) is over: attempt += 1, the loop condition, the next fetch;
\* with the external signal aborted that fetch rejects at once, unsent
AfterSleep(c) ==
    LET d == [c EXCEPT !.attempt = @ + 1]
    IN  IF d.attempt > MAX_ATTEMPTS
        THEN AfterLoop(d)
        ELSE IF d.aborted
             THEN Catch(d, AbortReason)
             ELSE [d EXCEPT !.phase = "fetch"]

SleepEnds ==
    /\ call.phase = "sleep"
    /\ call' = AfterSleep(call)

\* the external signal aborts while the call runs: a fetch in progress
\* rejects in the same turn, a sleep goes on (lines 24-28 take no signal)
Abort(c) ==
    IF c.phase = "fetch"
    THEN Settle([c EXCEPT !.aborted = TRUE], Cancelled)
    ELSE [c EXCEPT !.aborted = TRUE]

ExternalAbort ==
    /\ call.phase \in {"fetch", "sleep"}
    /\ ~call.aborted
    /\ call' = Abort(call)

\* fetchWithRetries on its own
FetchNext ==
    \/ FetchWithRetries /\ UNCHANGED <<vars, facilityVars, got, sortVars, restVars>>
    \/ \E r \in Outcomes : AttemptSettles(r) /\ UNCHANGED <<vars, facilityVars, got, sortVars, restVars>>
    \/ SleepEnds /\ UNCHANGED <<vars, facilityVars, got, sortVars, restVars>>
    \/ ExternalAbort /\ UNCHANGED <<vars, facilityVars, got, sortVars, restVars>>

(***************************************************************************)
(* sortRecommendations (tool.ts), one call on its own.  A recommendation   *)
(* is modelled by the fields the comparator reads, and its id.  What       *)
(* recommendFacility passes has finite distances: the filter before the    *)
(* call drops anything else.                                               *)
(***************************************************************************)
Recommendation(id, distanceMeters, freeSpaces) ==
    [id |-> id, distanceMeters |-> distanceMeters, freeSpaces |-> freeSpaces]

Recommendations ==
    {Recommendation(id, d, f) : id \in {"a", "b"}, d \in {100, 200}, f \in {Null, Num(-2), Num(5)}}

\* the arrays of at most n recommendations
RECURSIVE ArraysUpTo(_)
ArraysUpTo(n) ==
    IF n = 0
    THEN {<<>>}
    ELSE LET shorter == ArraysUpTo(n - 1)
         IN  shorter \cup {Append(s, r) : s \in {x \in shorter : Len(x) = n - 1}, r \in Recommendations}

\* the comparator that orders equal distances by freeSpaces ascending
compareFreeAscending(a, b) ==
    IF a.distanceMeters # b.distanceMeters
    THEN a.distanceMeters - b.distanceMeters
    ELSE Coalesce(<<a.freeSpaces, Num(-1)>>).n - Coalesce(<<b.freeSpaces, Num(-1)>>).n

\* the comparator handed to sort
compare(a, b) ==
    IF a.distanceMeters # b.distanceMeters
    THEN a.distanceMeters - b.distanceMeters
    ELSE Coalesce(<<b.freeSpaces, Num(-1)>>).n - Coalesce(<<a.freeSpaces, Num(-1)>>).n

\* Array.prototype.sort is stable: an element goes behind every element it
\* does not compare below
RECURSIVE InsertSorted(_, _)
InsertSorted(array, x) ==
    IF array = <<>>
    THEN <<x>>
    ELSE IF compare(x, Head(array)) < 0
         THEN <<x>> \o array
         ELSE <<Head(array)>> \o InsertSorted(Tail(array), x)

RECURSIVE Sort(_)
Sort(array) ==
    IF array = <<>>
    THEN <<>>
    ELSE InsertSorted(Sort(SubSeq(array, 1, Len(array) - 1)), array[Len(array)])

\* [...results].sort(...): the caller's array after the call, and the array returned
sortRecommendations(results) == [results |-> results, returned |-> Sort(results)]

\* given is the array as the caller built it
ToSort(given) == [phase |-> "idle", given |-> given, results |-> given, returned |-> <<>>]

NotSorting == ToSort(<<>>)

SortRecommendations ==
    /\ sorting.phase = "idle"
    /\ LET after == sortRecommendations(sorting.results)
       IN  sorting' = [sorting EXCEPT !.phase = "done", !.results = after.results,
                                      !.returned = after.returned]

\* sortRecommendations on its own
SortNext == SortRecommendations /\ UNCHANGED <<vars, fetchVars, facilityVars, got, restVars>>

(***************************************************************************)
(* estimateWalkMinutes (tool.ts), one call on its own.  Its argument is    *)
(* what haversineDistanceMeters returns, a whole number of metres          *)
(* (Math.round, tool.ts:236); the quotient of such a number by 80 is       *)
(* either whole or at least 1/80 away from every whole number, so the      *)
(* double the division yields has the ceiling of the exact quotient.       *)
(***************************************************************************)
WALKING_SPEED_METERS_PER_MINUTE == 80

Max(a, b) == IF a >= b THEN a ELSE b

\* Math.ceil(numerator / denominator), denominator > 0
Ceil(numerator, denominator) == -((-numerator) \div denominator)

\* the estimate that rounds the quotient down
estimateWalkMinutesFloor(distanceMeters) ==
    Max(0, distanceMeters \div WALKING_SPEED_METERS_PER_MINUTE)

estimateWalkMinutes(distanceMeters) ==
    Max(0, Ceil(distanceMeters, WALKING_SPEED_METERS_PER_MINUTE))

ToWalk(distanceMeters) == [phase |-> "idle", distanceMeters |-> distanceMeters, returned |-> 0]

NotWalking == ToWalk(0)

EstimateWalkMinutes ==
    /\ walking.phase = "idle"
    /\ walking' = [walking EXCEPT !.phase = "done",
                                  !.returned = estimateWalkMinutes(walking.distanceMeters)]

\* estimateWalkMinutes on its own
WalkNext ==
    EstimateWalkMinutes /\ UNCHANGED <<vars, fetchVars, facilityVars, got, sortVars, normalizing, request>>

(***************************************************************************)
(* The facility cache: normalizeFacilityMetadata and getFacilities, with   *)
(* the configuration loadConfig builds when the environment sets nothing.  *)
(* Coordinates are whole degrees here.                                     *)
(***************************************************************************)
facilitiesTtlMs == 86400000

config ==
    [baseUrl |-> "https://api.stockholmparkering.se", facilitiesPath |-> "/facilities",
     facilitiesTtlMs |-> facilitiesTtlMs]

\* a JSON object as the value of a property; o holds its own properties
ObjectValue(props) == [t |-> "object", s |-> "", n |-> 0, o |-> props]

NoFacility ==
    [some |-> FALSE, id |-> "", name |-> "", lat |-> 0, lon |-> 0, capacity |-> Null,
     tariffNote |-> Null, zoneCode |-> Null, sourceUrl |-> ""]

normalizeFacilityMetadata(raw, cfg) ==
    LET idValue == Coalesce(<<Prop(raw, "id"), Prop(raw, "Id"),
                              Prop(raw, "facilityId"), Prop(raw, "FacilityId")>>)
        nameValue == Coalesce(<<Prop(raw, "name"), Prop(raw, "Name"),
                                Prop(raw, "siteName"), Prop(raw, "SiteName")>>)
        positionValue == Coalesce(<<Prop(raw, "position"), Prop(raw, "Position")>>)
        positionRecord == positionValue.t = "object"
        latOuter == Coalesce(<<Prop(raw, "lat"), Prop(raw, "latitude"), Prop(raw, "Latitude")>>)
        latValue ==
            IF latOuter.t = "undefined" /\ positionRecord
            THEN Coalesce(<<Prop(positionValue.o, "lat"), Prop(positionValue.o, "Lat"),
                            Prop(positionValue.o, "latitude"), Prop(positionValue.o, "Latitude")>>)
            ELSE latOuter
        lonOuter == Coalesce(<<Prop(raw, "lon"), Prop(raw, "longitude"), Prop(raw, "Longitude")>>)
        lonValue ==
            IF lonOuter.t = "undefined" /\ positionRecord
            THEN Coalesce(<<Prop(positionValue.o, "lon"), Prop(positionValue.o, "Lon"),
                            Prop(positionValue.o, "longitude"), Prop(positionValue.o, "Longitude")>>)
            ELSE lonOuter
        lat == NumberOf(latValue)
        lon == NumberOf(lonValue)
        fallbackUrl == Str(cfg.baseUrl \o cfg.facilitiesPath)
    IN  IF ~Truthy(idValue) \/ ~Truthy(nameValue)
           \/ latValue.t = "undefined" \/ lonValue.t = "undefined"
        THEN NoFacility
        ELSE IF ~lat.fin \/ ~lon.fin
             THEN NoFacility
             ELSE [some |-> TRUE,
                   id |-> StringOf(idValue),
                   name |-> StringOf(nameValue),
                   lat |-> lat.n,
                   lon |-> lon.n,
                   capacity |-> toNumberOrNull(Coalesce(<<Prop(raw, "capacity"), Prop(raw, "Capacity")>>)),
                   tariffNote |-> toStringOrNull(Coalesce(<<Prop(raw, "tariffNote"), Prop(raw, "TariffNote")>>)),
                   zoneCode |-> toStringOrNull(Coalesce(<<Prop(raw, "zoneCode"), Prop(raw, "ZoneCode")>>)),
                   sourceUrl |-> Coalesce(<<toStringOrNull(Coalesce(<<Prop(raw, "sourceUrl"), Prop(raw, "SourceUrl"),
                                                                         Prop(raw, "url"), Prop(raw, "Url"),
                                                                         fallbackUrl>>)),
                                             fallbackUrl>>).s]

\* normalizeFacilityMetadata, one call on its own.  The record handed to it
\* is built from what the upstream gave for each of the four fields: the
\* value (Undefined: the property is absent), for the latitude the name it
\* came under, and whether the coordinates sit in a position sub-object.
Present(props) == [k \in {n \in DOMAIN props : props[n].t # "undefined"} |-> props[k]]

RawFacility(given) ==
    LET names == ("id" :> given.idValue) @@ ("name" :> given.nameValue)
        coordinates == (given.latName :> given.latValue) @@ ("lon" :> given.lonValue)
    IN  IF given.nested
        THEN Present(names @@ ("position" :> ObjectValue(Present(coordinates))))
        ELSE Present(names @@ coordinates)

ToNormalize(given) == [phase |-> "idle", given |-> given, raw |-> RawFacility(given), returned |-> NoFacility]

NoGiven ==
    [idValue |-> Undefined, nameValue |-> Undefined, latName |-> "lat", latValue |-> Undefined,
     lonValue |-> Undefined, nested |-> FALSE]

NotNormalizing == ToNormalize(NoGiven)

NormalizeFacilityMetadata ==
    /\ normalizing.phase = "idle"
    /\ normalizing' = [normalizing EXCEPT !.phase = "done",
                                          !.returned = normalizeFacilityMetadata(normalizing.raw, config)]

IsObject(item) == item.object
IsSome(item) == item.some
NormalizeItem(item) == normalizeFacilityMetadata(item.props, config)

\* items.map((item) => normalizeFacilityMetadata(item, config))
NormalizeAll(items) == [i \in 1..Len(items) |-> NormalizeItem(items[i])]

\* the chain that gives up at the first record it cannot normalize
NormalizeFacilitiesStrict(rawData) ==
    IF ~rawData.array \/ \E i \in 1..Len(rawData.items) :
                            ~rawData.items[i].object \/ ~NormalizeItem(rawData.items[i]).some
    THEN [ok |-> FALSE, value |-> <<>>, err |-> "shape"]
    ELSE [ok |-> TRUE, value |-> NormalizeAll(rawData.items), err |-> ""]

\* the chain without the Array.isArray test before it
NormalizeFacilitiesLenient(rawData) ==
    [ok |-> TRUE,
     value |-> SelectSeq(NormalizeAll(SelectSeq(rawData.items, IsObject)), IsSome),
     err |-> ""]

\* getFacilities once fetchWithRetries has returned rawData: the Array.isArray
\* test and the map/filter/map/filter chain
NormalizeFacilities(rawData) ==
    IF ~rawData.array
    THEN [ok |-> FALSE, value |-> <<>>, err |-> "shape"]
    ELSE [ok |-> TRUE,
          value |-> SelectSeq(NormalizeAll(SelectSeq(rawData.items, IsObject)), IsSome),
          err |-> ""]

(***************************************************************************)
(* The JSON bodies the upstream answers a facilities request with.         *)
(***************************************************************************)
FacilitiesF ==
    [array |-> TRUE,
     items |-> << Obj([id |-> Str("f1"), name |-> Str("One"), lat |-> Num(59), lon |-> Num(18),
                       capacity |-> Num(40), zoneCode |-> Str("Z1")]),
                  Obj([id |-> Str("f2"), name |-> Str("Two"), lon |-> Num(18)]),
                  NonObject,
                  Obj([Id |-> Num(3), SiteName |-> Str("Three"),
                       position |-> ObjectValue([Lat |-> Str("3"), lon |-> Num(7)]),
                       url |-> Str("u3")]) >>]

FacilitiesG ==
    [array |-> TRUE,
     items |-> << Obj([facilityId |-> Str("f4"), Name |-> Str("Four"), latitude |-> Num(3),
                       Longitude |-> Num(7), Capacity |-> Str("n/a")]),
                  Obj([id |-> Str("f1"), name |-> Str("One"), lat |-> Num(59), lon |-> Num(18)]),
                  Obj([id |-> Str("f5"), name |-> Str(""), lat |-> Num(3), lon |-> Num(7)]),
                  Obj([id |-> Str("f6"), name |-> Str("Six"), lat |-> Str("north"), lon |-> Num(7)]) >>]

FacilityBodies ==
    [k \in {"F", "G", "N"} |-> CASE k = "F" -> FacilitiesF [] k = "G" -> FacilitiesG [] OTHER -> BodyNotArray]

(***************************************************************************)
(* getFacilities.  A call that goes upstream is a task from its fetch to   *)
(* its return: the attempt and phase of its fetchWithRetries loop, whether *)
(* the signal of its request has aborted, and the now it read when called. *)
(***************************************************************************)
NoFacilityEntry == [present |-> FALSE, value |-> <<>>, expiresAt |-> 0]

NoAnswer == [kind |-> "none", status |-> 0, text |-> "", key |-> ""]

FacilityEventOf(name, kind, value, err) == [name |-> name, kind |-> kind, value |-> value, err |-> err]

FacilityQuiet(name) == FacilityEventOf(name, "none", <<>>, "")

FacilitiesIdle ==
    /\ facilityCache = NoFacilityEntry
    /\ facilityTasks = EmptyBag
    /\ facilityStarted = 0
    /\ facilityEvent = FacilityQuiet("internal")

FacilityTask(now) == [attempt |-> 1, phase |-> "fetch", aborted |-> FALSE, now |-> now]

FacilityRunning == BagToSet(facilityTasks)

\* cached && cached.expiresAt > now
FacilityIsLive(cached, now) == cached.present /\ cached.expiresAt > now

\* the entry stamped with the time the fetch returned, not the time of the call
StoredFacilitiesAt(facilities, now) ==
    [present |-> TRUE, value |-> facilities, expiresAt |-> clock + config.facilitiesTtlMs]

\* facilityCache.entry = {value: facilities, expiresAt: now + config.facilitiesTtlMs}
StoredFacilities(facilities, now) ==
    [present |-> TRUE, value |-> facilities, expiresAt |-> now + config.facilitiesTtlMs]

\* a call that serves the expired entry when its fetch fails
FacilityThrowsOrFallsBack(cached, err) ==
    IF cached.present
    THEN FacilityEventOf("facilitiesReturn", "value", cached.value, "")
    ELSE FacilityEventOf("facilitiesReturn", "error", <<>>, err)

\* nothing catches what fetchWithRetries or the Array.isArray test throws
FacilityThrows(cached, err) == FacilityEventOf("facilitiesReturn", "error", <<>>, err)

\* lines 197-201 with a live entry
GetFacilitiesCached ==
    /\ FacilityIsLive(facilityCache, clock)
    /\ facilityEvent' = FacilityEventOf("getFacilities", "value", facilityCache.value, "")
    /\ got' = NoAnswer
    /\ UNCHANGED <<clock, facilityCache, facilityTasks, facilityStarted>>

\* the call that joins a fetch in flight instead of starting its own
GetFacilitiesShared ==
    /\ ~FacilityIsLive(facilityCache, clock)
    /\ facilityStarted < MaxCalls
    /\ IF facilityTasks = EmptyBag
       THEN /\ facilityStarted' = facilityStarted + 1
            /\ facilityTasks' = Add(facilityTasks, FacilityTask(clock))
       ELSE UNCHANGED <<facilityStarted, facilityTasks>>
    /\ facilityEvent' = FacilityQuiet("getFacilities")
    /\ got' = NoAnswer
    /\ UNCHANGED <<clock, facilityCache>>

\* lines 197-204 otherwise: the call waits for fetchWithRetries
GetFacilitiesFetch ==
    /\ ~FacilityIsLive(facilityCache, clock)
    /\ facilityStarted < MaxCalls
    /\ facilityStarted' = facilityStarted + 1
    /\ facilityTasks' = Add(facilityTasks, FacilityTask(clock))
    /\ facilityEvent' = FacilityQuiet("getFacilities")
    /\ got' = NoAnswer
    /\ UNCHANGED <<clock, facilityCache>>

\* the call of task t ends by throwing err
FacilityRejected(t, err) ==
    /\ facilityTasks' = Remove(facilityTasks, t)
    /\ facilityEvent' = FacilityThrows(facilityCache, err)
    /\ UNCHANGED <<clock, facilityCache, facilityStarted>>

\* log, then await sleep(delay)
FacilitySleep(t) ==
    /\ facilityTasks' = Add(Remove(facilityTasks, t), [t EXCEPT !.phase = "sleep"])
    /\ facilityEvent' = FacilityQuiet("internal")
    /\ UNCHANGED <<clock, facilityCache, facilityStarted>>

\* the catch block of fetchWithRetries
FacilityCatch(t, attempt, aborted, err) ==
    IF aborted
    THEN FacilityRejected(t, "aborted")
    ELSE IF attempt >= MAX_ATTEMPTS
         THEN FacilityRejected(t, err)
         ELSE FacilitySleep(t)

\* a 2xx with the body key: lines 206-223
FacilityAttemptOk(t, key) ==
    /\ t \in FacilityRunning /\ t.phase = "fetch"
    /\ got' = Ok(key)
    /\ LET result == NormalizeFacilities(FacilityBodies[key])
       IN  IF result.ok
           THEN /\ facilityTasks' = Remove(facilityTasks, t)
                /\ facilityCache' = StoredFacilities(result.value, t.now)
                /\ facilityEvent' = FacilityEventOf("facilitiesReturn", "value", result.value, "")
                /\ UNCHANGED <<clock, facilityStarted>>
           ELSE FacilityRejected(t, result.err)

FacilityAttemptStatus(t, status) ==
    /\ t \in FacilityRunning /\ t.phase = "fetch"
    /\ got' = Status(status, "")
    /\ IF RetriesStatus(status, t.attempt)
       THEN FacilitySleep(t)
       ELSE FacilityCatch(t, t.attempt, t.aborted, "status")

FacilityAttemptThrows(t) ==
    /\ t \in FacilityRunning /\ t.phase = "fetch"
    /\ got' = Throws
    /\ FacilityCatch(t, t.attempt, t.aborted, "transport")

FacilitySleepDone(t) ==
    /\ t \in FacilityRunning /\ t.phase = "sleep"
    /\ got' = NoAnswer
    /\ IF t.aborted
       THEN FacilityCatch(t, t.attempt + 1, t.aborted, "transport")
       ELSE /\ facilityTasks' = Add(Remove(facilityTasks, t),
                                    [t EXCEPT !.phase = "fetch", !.attempt = t.attempt + 1])
            /\ facilityEvent' = FacilityQuiet("internal")
            /\ UNCHANGED <<clock, facilityCache, facilityStarted>>

\* the overall deadline of the request that made the call (tool.ts:146-149)
FacilityOverallTimeout(t) ==
    /\ t \in FacilityRunning
    /\ ~t.aborted
    /\ IF t.phase = "fetch"
       THEN got' = Cancelled /\ FacilityCatch(t, t.attempt, TRUE, "transport")
       ELSE /\ got' = NoAnswer
            /\ facilityTasks' = Add(Remove(facilityTasks, t), [t EXCEPT !.aborted = TRUE])
            /\ facilityEvent' = FacilityQuiet("internal")
            /\ UNCHANGED <<clock, facilityCache, facilityStarted>>

\* time passes, one facilities TTL at a time
FacilityTick ==
    /\ clock < MaxTicks * facilitiesTtlMs
    /\ clock' = clock + facilitiesTtlMs
    /\ facilityEvent' = FacilityQuiet("internal")
    /\ got' = NoAnswer
    /\ UNCHANGED <<facilityCache, facilityTasks, facilityStarted>>

(***************************************************************************)
(* One HTTP request (index.ts): the handler, and for POST                  *)
(* /recommendFacility the two cache calls recommendFacility awaits with    *)
(* Promise.all under its overall deadline (tool.ts:145-155).  A cache call *)
(* either returns from its cache or awaits a fetchWithRetries call that    *)
(* was handed overallController.signal.  The first call to reject rejects  *)
(* Promise.all, recommendFacility throws what that call threw and the      *)
(* catch of the handler picks the response.  An error is the name and the  *)
(* message the handler looks at.                                           *)
(***************************************************************************)
ErrorOf(name, message) == [name |-> name, message |-> message]

NoThrown == ErrorOf("", "")

\* new Error('Operation timed out'), the reason overallController aborts with
OperationTimedOut == ErrorOf("Error", "Operation timed out")

\* what a rejected fetch carries: the DOMException of AbortSignal.timeout, or
\* the TypeError of a network failure
TransportNames == {"TimeoutError", "TypeError"}

\* the Error object behind an error of fetchWithRetries
AsError(error, transportName) ==
    CASE error.kind = "reason" -> OperationTimedOut
      [] error.kind = "status" ->
            ErrorOf("Error", "Request failed with status " \o Numeral(error.status) \o ": " \o error.text)
      [] error.kind = "transport" -> ErrorOf(transportName, "fetch rejected")
      [] error.kind = "parse" -> ErrorOf("SyntaxError", "Unexpected token")
      [] OTHER -> ErrorOf("Error", "Request failed")

\* the call answered from its cache: no fetchWithRetries call is made
FromCache == [NoCall EXCEPT !.phase = "returned", !.value = "cache"]

NoRequest ==
    [phase |-> "idle", received |-> "", facilities |-> NoCall, availability |-> NoCall,
     deadline |-> FALSE, thrown |-> NoThrown, status |-> 0, body |-> ""]

\* sendJson(res, statusCode, payload)
SendJson(r, statusCode, body) == [r EXCEPT !.phase = "responded", !.status = statusCode, !.body = body]

\* the catch of the handler (index.ts:61-81)
HandlerCatch(r, error) ==
    LET s == [r EXCEPT !.thrown = error]
    IN  IF error.message = "Invalid input"
        THEN SendJson(s, 400, error.message)
        ELSE IF error.message = "Payload too large"
             THEN SendJson(s, 413, error.message)
             ELSE IF error.name = "AbortError"
                  THEN SendJson(s, 504, "Request timed out")
                  ELSE SendJson(s, 500, "Internal server error")

\* the body of the response is not an array (part_003:206-208, 231-233)
NotAnArray(c) == c.phase = "returned" /\ c.value = "N"

\* Promise.all and what follows it, once a cache call has moved: the first
\* rejection is thrown to the handler; with both values the recommendations
\* are assembled, and their validation may fail
Awaited(r, transportName, outputValid) ==
    CASE r.facilities.phase = "thrown" -> HandlerCatch(r, AsError(r.facilities.error, transportName))
      [] NotAnArray(r.facilities) -> HandlerCatch(r, ErrorOf("Error", "Facilities response is not an array"))
      [] r.availability.phase = "thrown" -> HandlerCatch(r, AsError(r.availability.error, transportName))
      [] NotAnArray(r.availability) -> HandlerCatch(r, ErrorOf("Error", "Availability response is not an array"))
      [] r.facilities.phase = "returned" /\ r.availability.phase = "returned" ->
            IF outputValid
            THEN SendJson(r, 200, "recommendations")
            ELSE HandlerCatch(r, ErrorOf("Error", "Internal output validation failed"))
      [] OTHER -> r

Requests == {"GET /healthz", "GET /", "POST too large", "POST unparsable", "POST invalid", "POST valid"}

\* a request arrives: the routes, parseRequestBody, validateInput; a valid
\* POST /recommendFacility starts the deadline and the two cache calls, each
\* of which finds its cache live or goes upstream
Receive(received, facilitiesCached, availabilityCached, outputValid) ==
    /\ request.phase = "idle"
    /\ LET r == [request EXCEPT !.received = received]
       IN  request' =
             CASE received = "GET /healthz" -> SendJson(r, 200, "ok")
               [] received = "GET /" -> SendJson(r, 404, "Not found")
               [] received = "POST too large" -> HandlerCatch(r, ErrorOf("Error", "Payload too large"))
               [] received = "POST unparsable" -> HandlerCatch(r, ErrorOf("SyntaxError", "Unexpected token"))
               [] received = "POST invalid" -> HandlerCatch(r, ErrorOf("Error", "Invalid input"))
               [] OTHER ->
                    Awaited([r EXCEPT !.phase = "running",
                                      !.facilities = IF facilitiesCached THEN FromCache ELSE Started(NoCall),
                                      !.availability = IF availabilityCached THEN FromCache ELSE Started(NoCall)],
                            "TypeError", outputValid)

\* what the upstream does with an attempt of a request's cache call
RequestOutcomes == {Ok("A"), Ok("N"), Status(503, "x"), Throws}

\* an attempt of getFacilities' fetch ends
FacilitiesAttemptSettles(r, transportName, outputValid) ==
    /\ request.phase = "running" /\ request.facilities.phase = "fetch"
    /\ request' = Awaited([request EXCEPT !.facilities = Settle(@, r)], transportName, outputValid)

\* an attempt of getAvailability's fetch ends
AvailabilityAttemptSettles(r, transportName, outputValid) ==
    /\ request.phase = "running" /\ request.availability.phase = "fetch"
    /\ request' = Awaited([request EXCEPT !.availability = Settle(@, r)], transportName, outputValid)

\* the sleep of getFacilities' fetch is over
FacilitiesSleepEnds ==
    /\ request.phase = "running" /\ request.facilities.phase = "sleep"
    /\ request' = Awaited([request EXCEPT !.facilities = AfterSleep(@)], "TypeError", TRUE)

\* the sleep of getAvailability's fetch is over
AvailabilitySleepEnds ==
    /\ request.phase = "running" /\ request.availability.phase = "sleep"
    /\ request' = Awaited([request EXCEPT !.availability = AfterSleep(@)], "TypeError", TRUE)

\* the timer of tool.ts:146-148 fires: overallController.abort(new Error(...));
\* the fetches in progress reject in the same turn, the sleeps go on
Deadline ==
    /\ request.phase = "running" /\ ~request.deadline
    /\ request' = Awaited([request EXCEPT !.deadline = TRUE,
                                          !.facilities = IF @.phase \in {"fetch", "sleep"} THEN Abort(@) ELSE @,
                                          !.availability = IF @.phase \in {"fetch", "sleep"} THEN Abort(@) ELSE @],
                          "TypeError", TRUE)

requestRest == <<vars, fetchVars, facilityVars, got, sortVars, walking, normalizing>>

RequestNext ==
    \/ \E received \in Requests, facilitiesCached \in BOOLEAN, availabilityCached \in BOOLEAN,
          outputValid \in BOOLEAN :
          Receive(received, facilitiesCached, availabilityCached, outputValid) /\ UNCHANGED requestRest
    \/ \E r \in RequestOutcomes, transportName \in TransportNames, outputValid \in BOOLEAN :
          FacilitiesAttemptSettles(r, transportName, outputValid) /\ UNCHANGED requestRest
    \/ \E r \in RequestOutcomes, transportName \in TransportNames, outputValid \in BOOLEAN :
          AvailabilityAttemptSettles(r, transportName, outputValid) /\ UNCHANGED requestRest
    \/ FacilitiesSleepEnds /\ UNCHANGED requestRest
    \/ AvailabilitySleepEnds /\ UNCHANGED requestRest
    \/ Deadline /\ UNCHANGED requestRest

(***************************************************************************)
(* The specifications.  The caches, the fetcher, the pure functions and    *)
(* the request share no state, so each is explored with the others at rest.*)
(***************************************************************************)
allVars == <<vars, elsewhere>>

FetchIdle == call = NoCall
SortIdle == sorting = NotSorting
RestIdle == walking = NotWalking /\ normalizing = NotNormalizing /\ request = NoRequest

\* the program as it is loaded: both caches empty, nothing called yet
Loaded == Init /\ FetchIdle /\ FacilitiesIdle /\ got = NoAnswer /\ SortIdle /\ RestIdle

\* the availability cache
Spec == Loaded /\ [][Next]_allVars

\* one fetchWithRetries call
SpecFetch == Loaded /\ [][FetchNext]_allVars

\* size of the arrays handed to sortRecommendations
MaxItems == 3

SortInit ==
    /\ Init /\ FetchIdle /\ FacilitiesIdle /\ got = NoAnswer
    /\ sorting \in {ToSort(given) : given \in ArraysUpTo(MaxItems)}
    /\ RestIdle

\* one sortRecommendations call, over every array of at most MaxItems items
SpecSort == SortInit /\ [][SortNext]_allVars

\* the distances handed to estimateWalkMinutes, either side of 0
MaxDistance == 170

WalkInit ==
    /\ Init /\ FetchIdle /\ FacilitiesIdle /\ got = NoAnswer /\ SortIdle
    /\ walking \in {ToWalk(d) : d \in -MaxDistance..MaxDistance}
    /\ normalizing = NotNormalizing
    /\ request = NoRequest

\* one estimateWalkMinutes call, over every distance up to MaxDistance
SpecWalk == WalkInit /\ [][WalkNext]_allVars

\* what an upstream record may hold for the id, the name and a coordinate
GivenIds == {Undefined, Null, Str(""), Str("f1"), Num(0), Num(7)}
GivenNames == {Undefined, Str(""), Str("One")}
GivenCoordinates == {Undefined, Null, Str(""), Str("north"), Str("7"), Num(59)}

Givens ==
    [idValue : GivenIds, nameValue : GivenNames, latName : {"lat", "Latitude"},
     latValue : GivenCoordinates, lonValue : GivenCoordinates \ {Str("7")}, nested : BOOLEAN]

NormalizeInit ==
    /\ Init /\ FetchIdle /\ FacilitiesIdle /\ got = NoAnswer /\ SortIdle
    /\ walking = NotWalking
    /\ normalizing \in {ToNormalize(given) : given \in Givens}
    /\ request = NoRequest

NormalizeNext ==
    NormalizeFacilityMetadata /\ UNCHANGED <<vars, fetchVars, facilityVars, got, sortVars, walking, request>>

\* one normalizeFacilityMetadata call, over every record of Givens
SpecNormalize == NormalizeInit /\ [][NormalizeNext]_allVars

\* one HTTP request
SpecRequest == Loaded /\ [][RequestNext]_allVars

availabilityRest == <<availabilityCache, tasks, started, lastOk, lastRevalidated, event>>

\* the facility cache
FacilityNext ==
    \/ GetFacilitiesCached /\ UNCHANGED <<availabilityRest, fetchVars, sortVars, restVars>>
    \/ GetFacilitiesFetch /\ UNCHANGED <<availabilityRest, fetchVars, sortVars, restVars>>
    \/ \E t \in FacilityRunning, key \in DOMAIN FacilityBodies :
            FacilityAttemptOk(t, key) /\ UNCHANGED <<availabilityRest, fetchVars, sortVars, restVars>>
    \/ \E t \in FacilityRunning, status \in Statuses :
            FacilityAttemptStatus(t, status) /\ UNCHANGED <<availabilityRest, fetchVars, sortVars, restVars>>
    \/ \E t \in FacilityRunning :
            FacilityAttemptThrows(t) /\ UNCHANGED <<availabilityRest, fetchVars, sortVars, restVars>>
    \/ \E t \in FacilityRunning :
            FacilitySleepDone(t) /\ UNCHANGED <<availabilityRest, fetchVars, sortVars, restVars>>
    \/ \E t \in FacilityRunning :
            FacilityOverallTimeout(t) /\ UNCHANGED <<availabilityRest, fetchVars, sortVars, restVars>>
    \/ FacilityTick /\ UNCHANGED <<availabilityRest, fetchVars, sortVars, restVars>>

SpecFacilities ==
    Loaded /\ [][FacilityNext]_allVars

(***************************************************************************)
(* Both caches, each run exercising one of them (the first call of a run   *)
(* decides which; before it, time is not moved: the code reads only        *)
(* differences of times), and at most MaxCalls calls going upstream.       *)
(* Steps of the availability cache say in got what the upstream answered.  *)
(***************************************************************************)
AvailabilityTurn == facilityStarted = 0
FacilityTurn == started = 0

OfAvailability(Step, answer) ==
    /\ AvailabilityTurn
    /\ Step
    /\ got' = answer
    /\ UNCHANGED <<fetchVars, facilityVars, sortVars, restVars>>

OfFacilities(Step) ==
    /\ FacilityTurn
    /\ Step
    /\ UNCHANGED <<availabilityRest, fetchVars, sortVars, restVars>>

CachesNext ==
    \/ OfAvailability(GetAvailabilityFresh, NoAnswer)
    \/ OfAvailability(GetAvailabilityInFlight, NoAnswer)
    \/ started < MaxCalls /\ OfAvailability(GetAvailabilityRevalidate, NoAnswer)
    \/ started < MaxCalls /\ OfAvailability(GetAvailabilitySync, NoAnswer)
    \/ \E t \in Running, key \in DOMAIN Bodies : OfAvailability(AttemptOk(t, key), Ok(key))
    \/ \E t \in Running, status \in Statuses : OfAvailability(AttemptStatus(t, status), Status(status, ""))
    \/ \E t \in Running : OfAvailability(AttemptThrows(t), Throws)
    \/ \E t \in Running : OfAvailability(SleepDone(t), NoAnswer)
    \/ \E t \in Running : OfAvailability(OverallTimeout(t), IF t.phase = "fetch" THEN Cancelled ELSE NoAnswer)
    \/ started > 0 /\ OfAvailability(Tick, NoAnswer)
    \/ OfFacilities(GetFacilitiesCached)
    \/ OfFacilities(GetFacilitiesFetch)
    \/ \E t \in FacilityRunning, key \in DOMAIN FacilityBodies : OfFacilities(FacilityAttemptOk(t, key))
    \/ \E t \in FacilityRunning, status \in Statuses : OfFacilities(FacilityAttemptStatus(t, status))
    \/ \E t \in FacilityRunning : OfFacilities(FacilityAttemptThrows(t))
    \/ \E t \in FacilityRunning : OfFacilities(FacilitySleepDone(t))
    \/ \E t \in FacilityRunning : OfFacilities(FacilityOverallTimeout(t))
    \/ facilityStarted > 0 /\ OfFacilities(FacilityTick)

SpecCaches ==
    Loaded /\ [][CachesNext]_allVars


(***************************************************************************)
(* The availability cache from an expired slot on, with time that never    *)
(* stops.  The slot holds what a call at time 0 fetched, one TTL ago, and  *)
(* is never empty again, so no call takes the synchronous path.  The clock *)
(* of the model is a window: at its upper end every time the state holds   *)
(* is moved back by TickMs instead (the code reads times only to compare   *)
(* them with, or add the TTL to, Date.now()); times that would leave the   *)
(* window stay at 0, in the past of every clock value from then on.  The   *)
(* refreshes that have ended stop counting towards MaxRefreshes.           *)
(***************************************************************************)
ExpiredSlot ==
    /\ clock = availabilityTtlMs
    /\ availabilityCache = SyncEntry(CollectAvailability(BodyA.items, 1, EmptyMap), 0)
    /\ tasks = EmptyBag
    /\ started = 1
    /\ lastOk = "A"
    /\ lastRevalidated = NeverRevalidated
    /\ event = Quiet("internal", "")
    /\ FetchIdle /\ FacilitiesIdle /\ got = NoAnswer /\ SortIdle /\ RestIdle

MovedBack(time) == IF time > TickMs THEN time - TickMs ELSE 0

MovedBackTask(t) ==
    [t EXCEPT !.now = MovedBack(@), !.cached = [@ EXCEPT !.expiresAt = MovedBack(@)]]

\* time passes, for ever
TimePasses ==
    IF clock + TickMs <= MaxTicks * TickMs
    THEN Tick
    ELSE /\ availabilityCache' = [availabilityCache EXCEPT !.expiresAt = MovedBack(@)]
         /\ tasks' = BagOfAll(MovedBackTask, tasks)
         /\ lastRevalidated' = [lastRevalidated EXCEPT !.at = MovedBack(@)]
         /\ event' = Quiet("internal", "")
         /\ UNCHANGED <<clock, started, lastOk>>

\* only the refreshes still running count towards MaxRefreshes
Forget ==
    /\ started > BagCardinality(tasks)
    /\ started' = BagCardinality(tasks)
    /\ UNCHANGED <<clock, availabilityCache, tasks, lastOk, lastRevalidated, event>>

\* getAvailability is called
Calls ==
    (GetAvailabilityFresh \/ GetAvailabilityInFlight \/ GetAvailabilityRevalidate)
        /\ UNCHANGED elsewhere

\* the upstream answers an attempt with an array
Succeeds == \E t \in Running, key \in {"A", "B"} : AttemptOk(t, key) /\ UNCHANGED elsewhere

\* the timer of a sleep fires
Wakes == \E t \in Running : SleepDone(t) /\ UNCHANGED elsewhere

LiveNext ==
    \/ GetAvailabilityFresh /\ UNCHANGED elsewhere
    \/ GetAvailabilityInFlight /\ UNCHANGED elsewhere
    \/ GetAvailabilityRevalidate /\ UNCHANGED elsewhere
    \/ \E t \in Running, key \in DOMAIN Bodies : AttemptOk(t, key) /\ UNCHANGED elsewhere
    \/ \E t \in Running, status \in Statuses : AttemptStatus(t, status) /\ UNCHANGED elsewhere
    \/ \E t \in Running : AttemptThrows(t) /\ UNCHANGED elsewhere
    \/ \E t \in Running : SleepDone(t) /\ UNCHANGED elsewhere
    \/ \E t \in Running : OverallTimeout(t) /\ UNCHANGED elsewhere
    \/ TimePasses /\ UNCHANGED elsewhere
    \/ Forget /\ UNCHANGED elsewhere

\* Callers keep calling, timers fire, time passes; an upstream that can answer
\* with an array again and again does so at some point.  Nothing is assumed
\* about when a caller calls.
SpecLive ==
    /\ ExpiredSlot
    /\ [][LiveNext]_allVars
    /\ WF_allVars(Calls)
    /\ WF_allVars(Wakes)
    /\ WF_allVars(TimePasses /\ UNCHANGED elsewhere)
    /\ WF_allVars(Forget /\ UNCHANGED elsewhere)
    /\ SF_allVars(Succeeds)

(***************************************************************************)
(* The availability cache with the progress the runtime gives it: a fetch  *)
(* that stays pending is rejected when its AbortSignal.timeout fires       *)
(* (requestTimeoutMs, line 64), and the timer of a sleep fires.  Nothing   *)
(* is assumed about callers, the upstream's answers or the clock.          *)
(***************************************************************************)
\* the timeout of an attempt in progress fires
TimesOut == \E t \in Running : AttemptThrows(t) /\ UNCHANGED elsewhere

SpecProgress ==
    /\ Loaded
    /\ [][Next]_allVars
    /\ WF_allVars(TimesOut)
    /\ WF_allVars(Wakes)

(***************************************************************************)
(* Properties.                                                             *)
(***************************************************************************)
InFlight == BagCardinality(tasks)

Expired(entry, now) == entry.present /\ entry.expiresAt <= now

\* a step in which getAvailability is called
Called == event'.name = "getAvailability"

\* the normalized records of a response array, item by item
Normalized(items) ==
    [i \in 1..Len(items) |->
        IF items[i].object THEN normalizeAvailability(items[i].props) ELSE NoRecord]

\* the snapshot a response array stands for: for every id some record of
\* the array normalizes to, the last such record
Snapshot(items) ==
    LET n == Normalized(items)
        good == {i \in 1..Len(items) : n[i].some}
    IN  [k \in {n[i].id : i \in good} |->
            n[CHOOSE i \in good : n[i].id = k /\ \A j \in good : j > i => n[j].id # k]]

\* C1: on an expired entry with no refresh in flight, a call returns the old
\* data with stale:true and starts exactly one refresh, which it marks in the
\* entry; while that refresh is the one in flight the entry stays as it is,
\* and a second call returns the same old data with stale:true and starts
\* no refresh.
C1_SingleFlightOnExpiry ==
    [][ /\ (Called /\ Expired(availabilityCache, clock) /\ InFlight = 0) =>
              /\ event'.kind = "value" /\ event'.stale
              /\ event'.data = availabilityCache.value
              /\ started' = started + 1
              /\ BagCardinality(tasks') = 1
              /\ availabilityCache' = [availabilityCache EXCEPT !.revalidatePromise = TRUE]
        /\ (availabilityCache.revalidatePromise /\ InFlight = 1 /\ tasks' # EmptyBag) =>
              availabilityCache' = availabilityCache
        /\ (Called /\ availabilityCache.revalidatePromise /\ InFlight = 1) =>
              /\ event'.kind = "value" /\ event'.stale
              /\ event'.data = availabilityCache.value
              /\ started' = started
              /\ tasks' = tasks
      ]_vars

\* C1 witness: a second call has just returned stale data while the one
\* refresh started by the first is still in flight.
C1_Witness ==
    /\ event.name = "getAvailability" /\ event.path = "inflight"
    /\ event.stale
    /\ InFlight = 1
    /\ Expired(availabilityCache, clock)

\* C2: at most one availability refresh is in flight at any time, calls made
\* on the empty slot included.
C2_AtMostOneRefresh == InFlight <= 1

\* C3: once a snapshot is stored, no getAvailability call ends with an error.
C3_NoErrorOnceStored == availabilityCache.present => event.kind # "error"

\* C4: when a background refresh succeeds at time t the slot becomes
\* {new snapshot, t + availabilityTtlMs, no handle}, and every call made
\* after that and before t + availabilityTtlMs returns the new snapshot
\* with stale:false.
C4_FreshAfterRevalidation ==
    /\ event.name = "revalidated" =>
          /\ lastRevalidated.at = clock
          /\ availabilityCache =
                [present |-> TRUE, value |-> Snapshot(Bodies[lastRevalidated.key].items),
                 expiresAt |-> clock + availabilityTtlMs, revalidatePromise |-> FALSE]
    /\ (/\ event.name = "getAvailability"
        /\ lastRevalidated.some
        /\ clock < lastRevalidated.at + availabilityTtlMs) =>
          /\ event.kind = "value" /\ ~event.stale
          /\ event.data = Snapshot(Bodies[lastRevalidated.key].items)

\* C5: a failed background refresh clears the handle and leaves value and
\* expiresAt alone; the call that comes next returns the last good data
\* with stale:true and starts a new refresh.
C5_RetryAfterFailedRefresh ==
    [][ /\ event'.name = "revalidateFailed" =>
              /\ ~availabilityCache'.revalidatePromise
              /\ availabilityCache'.value = availabilityCache.value
              /\ availabilityCache'.expiresAt = availabilityCache.expiresAt
        /\ (event.name = "revalidateFailed" /\ Called) =>
              /\ event'.kind = "value" /\ event'.stale
              /\ event'.data = availabilityCache.value
              /\ started' = started + 1
      ]_vars

\* C6: a background refresh is not bound by the signal of the request that
\* started it: it never ends with that signal's abort reason.
C6_BackgroundNotAborted == event.name = "revalidateFailed" => event.err # "aborted"

\* C7: a call made while the slot holds an entry returns in the step it is
\* made in and leaves no caller waiting for the upstream; a call on the
\* empty slot waits.
C7_NeverBlocksOnEntry ==
    [][ Called =>
          IF availabilityCache.present
          THEN /\ event'.kind = "value"
               /\ \A t \in BagToSet(tasks') : t.kind = "sync" => t \in BagToSet(tasks)
          ELSE /\ event'.kind = "none"
               /\ \E t \in BagToSet(tasks') : t.kind = "sync" /\ t.now = clock
      ]_vars

\* C7 witness: a call has just returned stale data while the background
\* refresh is on a later attempt, still waiting for the upstream.
C7_Witness ==
    /\ event.name = "getAvailability" /\ event.kind = "value" /\ event.stale
    /\ \E t \in BagToSet(tasks) : t.kind = "background" /\ t.attempt > 1 /\ t.phase = "fetch"

\* C8: a call made while now < expiresAt returns the cached data with
\* stale:false, starts nothing and leaves the slot alone; from
\* now = expiresAt on the entry is expired and a call returns stale:true.
C8_FreshHitIsPure ==
    [][ Called =>
          /\ (availabilityCache.present /\ clock < availabilityCache.expiresAt) =>
                /\ event'.kind = "value" /\ ~event'.stale
                /\ event'.data = availabilityCache.value
                /\ UNCHANGED <<availabilityCache, tasks, started>>
          /\ (availabilityCache.present /\ clock >= availabilityCache.expiresAt) =>
                /\ event'.kind = "value" /\ event'.stale
      ]_vars

\* C8 witness: a call has been served from a live entry.
C8_Witness ==
    /\ event.name = "getAvailability" /\ event.path = "fresh"
    /\ event.kind = "value" /\ ~event.stale
    /\ clock < availabilityCache.expiresAt

\* C8, second witness state: a call made at the very millisecond of expiry.
C8_WitnessAtExpiry ==
    /\ event.name = "getAvailability" /\ event.stale
    /\ clock = availabilityCache.expiresAt

\* C9: when the synchronous fetch of a call on the empty slot succeeds, the
\* slot is fresh as the call returns: stale:false, and expiresAt later than
\* the current time.
C9_FreshAfterSyncFetch ==
    (event.name = "syncReturn" /\ event.kind = "value" /\ ~event.stale) =>
        IsLive(availabilityCache, clock)

\* C10: the value in the slot, and the data of every result, is the complete
\* normalized snapshot of the one response whose refresh succeeded last.
C10_WholeSnapshots ==
    /\ availabilityCache.present =>
          /\ lastOk \in DOMAIN Bodies /\ Bodies[lastOk].array
          /\ availabilityCache.value = Snapshot(Bodies[lastOk].items)
    /\ event.kind = "value" =>
          /\ availabilityCache.present
          /\ event.data = availabilityCache.value

\* C10 witness: a background refresh has replaced the snapshot; its response
\* had a non-object item, a record without id and two records for "a".
C10_Witness ==
    /\ event.name = "revalidated"
    /\ lastOk = "B"
    /\ DOMAIN availabilityCache.value = {"a", "7"}
    /\ availabilityCache.value["a"].freeSpaces = Num(0)

\* C11 as claimed: from the expired slot on, with callers that keep calling
\* and an upstream that succeeds in the end, some getAvailability call is
\* answered stale:false out of a background refresh.
C11_SomeCallIsFresh ==
    <>(event.name = "getAvailability" /\ event.kind = "value" /\ ~event.stale
          /\ lastRevalidated.some)

\* C11, amended: whenever the slot is expired, a later refresh makes it live
\* again with the snapshot it fetched; the slot does not stay stale for ever.
\* (Whether a call is answered stale:false depends on when callers call: one
\* that comes back only after each refreshed entry has expired is answered
\* stale:true every time.)
C11_SlotConverges ==
    Expired(availabilityCache, clock) ~>
        (IsLive(availabilityCache, clock) /\ lastRevalidated.some
            /\ lastRevalidated.at = clock /\ availabilityCache.value = Snapshot(Bodies[lastOk].items))

\* C11 witness: a background refresh has replaced the expired snapshot and a
\* call made before the new entry expires is answered stale:false
C11_Witness ==
    /\ event.name = "getAvailability" /\ event.path = "fresh" /\ ~event.stale
    /\ lastRevalidated.some
    /\ lastOk = "B"
    /\ event.data = Snapshot(BodyB.items)

(***************************************************************************)
(* fetchWithRetries (SpecFetch).                                           *)
(***************************************************************************)
\* the attempt got a status of RETRY_STATUS_CODES
GotRetryable(r) == r.kind = "status" /\ r.status \in {429, 500, 502, 503, 504}

\* C12: a non-2xx status that is not retryable (404) ends the call on the
\* attempt that received it: the call has thrown the error with that status
\* and body, there was no later attempt, and no retry was logged, no delay
\* slept, for that attempt.
C12_NonRetryableFailsAtOnce ==
    \A i \in 1..Len(call.received) :
        LET r == call.received[i]
        IN  (r.kind = "status" /\ ~GotRetryable(r)) =>
                /\ i = Len(call.received)
                /\ call.phase = "thrown"
                /\ call.error = StatusError(r.status, r.text)
                /\ \A j \in 1..Len(call.log) : call.log[j].attempt # i
                /\ Len(call.slept) < i

\* C13: a call makes at most 3 attempts whatever the upstream does, and when
\* all 3 got a retryable status it has thrown the error that carries the
\* status and the body of the third response.
C13_AtMostThreeAttempts ==
    /\ Len(call.received) <= 3
    /\ call.attempt <= 3
    /\ (Len(call.received) = 3 /\ \A i \in 1..3 : GotRetryable(call.received[i])) =>
          /\ call.phase = "thrown"
          /\ call.error = StatusError(call.received[3].status, call.received[3].text)

\* C13 witness: 500 three times, the body of the third unlike the others
C13_Witness ==
    /\ call.phase = "thrown"
    /\ call.received = <<Status(500, "x"), Status(500, "x"), Status(500, "y")>>
    /\ call.error = StatusError(500, "y")

\* C14: when attempt k is the first to get a 2xx and every attempt before it
\* failed with a retryable status or a transport error, the call has
\* returned the parsed body of attempt k and logged exactly k-1 retries, one
\* per failed attempt; 503 then 200 returns the second body with exactly one
\* retry logged, with delay 200.
C14_FirstSuccessReturns ==
    LET k == Len(call.received)
    IN  /\ (k >= 1 /\ call.received[k].kind = "ok"
               /\ \A i \in 1..(k - 1) :
                     GotRetryable(call.received[i]) \/ call.received[i].kind = "throws") =>
              /\ call.phase = "returned"
              /\ call.value = call.received[k].key
              /\ Len(call.log) = k - 1
              /\ \A i \in 1..(k - 1) : call.log[i].attempt = i
        /\ (k = 2 /\ call.received[1].kind = "status" /\ call.received[1].status = 503
               /\ call.received[2].kind = "ok") =>
              /\ call.value = call.received[2].key
              /\ Len(call.log) = 1
              /\ call.log[1].message = "Retrying upstream request"
              /\ call.log[1].status = 503
              /\ call.log[1].delay = 200
              /\ call.slept = <<200>>

\* C14 witness: 503 then 200 with body B; and a first 2xx on the third
\* attempt, after a transport error and a 500
C14_Witness ==
    /\ call.phase = "returned"
    /\ \/ call.received = <<Status(503, "x"), Ok("B")>> /\ call.value = "B"
       \/ call.received = <<Throws, Status(500, "y"), Ok("A")>> /\ Len(call.log) = 2

\* C15: once the external signal has aborted during a call, the call has
\* failed with the signal's reason: it is not left waiting for a backoff
\* delay, and it starts no further attempt.
C15_CancelIsPrompt ==
    call.aborted => (call.phase = "thrown" /\ call.error = AbortReason)

(***************************************************************************)
(* sortRecommendations (SpecSort).                                         *)
(***************************************************************************)
\* freeSpaces, null counting as -1
FreeRank(r) == IF r.freeSpaces.t = "null" THEN -1 ELSE r.freeSpaces.n

\* a may stand before b: nearer, or as near with at least as many free spaces
MayPrecede(a, b) ==
    \/ a.distanceMeters < b.distanceMeters
    \/ a.distanceMeters = b.distanceMeters /\ FreeRank(a) >= FreeRank(b)

Occurrences(array, x) == Cardinality({i \in 1..Len(array) : array[i] = x})

\* C20: what sortRecommendations returns is a permutation of its argument,
\* ordered by distanceMeters ascending and, at equal distance, by freeSpaces
\* descending with null ranking as -1; the argument itself is as it was.
C20_SortedPermutation ==
    sorting.phase = "done" =>
        /\ Len(sorting.returned) = Len(sorting.given)
        /\ \A x \in Recommendations :
              Occurrences(sorting.returned, x) = Occurrences(sorting.given, x)
        /\ \A i, j \in 1..Len(sorting.returned) :
              i < j => MayPrecede(sorting.returned[i], sorting.returned[j])
        /\ sorting.results = sorting.given

\* C20 witness: three items out of order, two of them at the same distance
\* with null and -2 free spaces
C20_Witness ==
    /\ sorting.phase = "done"
    /\ sorting.given = <<Recommendation("a", 200, Num(5)), Recommendation("b", 100, Num(-2)),
                         Recommendation("a", 100, Null)>>
    /\ sorting.returned = <<Recommendation("a", 100, Null), Recommendation("b", 100, Num(-2)),
                            Recommendation("a", 200, Num(5))>>

(***************************************************************************)
(* The two caches (SpecCaches, SpecFacilities).                            *)
(***************************************************************************)
\* a getFacilities call that went upstream ends in this step
FacilityCallEnds == \E t \in FacilityRunning : facilityTasks' = Remove(facilityTasks, t)

\* a refreshAvailability call ends in this step
RefreshEnds == \E t \in Running : tasks' = Remove(tasks, t)

\* the upstream answered with a 2xx whose body is no array
GotNoArray(answer) == answer.kind = "ok" /\ answer.key = "N"

\* the upstream answered with a 2xx whose body is an array
GotArray(answer) == answer.kind = "ok" /\ answer.key # "N"

\* C16: when the upstream answers a 2xx whose JSON body is not an array,
\* the getFacilities call or the availability refresh that made the request
\* ends in that very turn with the shape error (it is not put to sleep, it
\* makes no further request) and the value and expiresAt of its cache entry,
\* or the absence of an entry, are as they were.  (What a failed background
\* refresh does to the in-flight handle is C5's matter.)
C16_NotAnArrayFailsAtOnce ==
    [][GotNoArray(got') =>
          \/ /\ FacilityCallEnds
             /\ facilityEvent'.kind = "error" /\ facilityEvent'.err = "shape"
             /\ facilityCache' = facilityCache
          \/ /\ RefreshEnds
             /\ event'.err = "shape" /\ event'.kind # "value"
             /\ availabilityCache'.present = availabilityCache.present
             /\ availabilityCache'.value = availabilityCache.value
             /\ availabilityCache'.expiresAt = availabilityCache.expiresAt]_allVars

\* C16 witness: a background availability refresh was answered with a
\* non-array and has failed; the snapshot is still there
C16_Witness ==
    /\ GotNoArray(got)
    /\ event.name = "revalidateFailed" /\ event.err = "shape"
    /\ availabilityCache.present /\ availabilityCache.value # EmptyMap

\* C17: a getFacilities call made while the entry is live (now < expiresAt)
\* returns the cached sequence, starts no upstream request and leaves the
\* entry as it is; a call made otherwise goes upstream, and when its fetch
\* succeeds it stores what it returns with expiresAt = (the time the call
\* was made) + 24 h.
C17_GetFacilities ==
    [][/\ (facilityEvent'.name = "getFacilities"
              /\ facilityCache.present /\ clock < facilityCache.expiresAt) =>
              /\ facilityEvent'.kind = "value"
              /\ facilityEvent'.value = facilityCache.value
              /\ UNCHANGED <<facilityCache, facilityTasks, facilityStarted>>
       /\ (facilityEvent'.name = "getFacilities"
              /\ ~(facilityCache.present /\ clock < facilityCache.expiresAt)) =>
              /\ facilityEvent'.kind = "none"
              /\ \E t \in BagToSet(facilityTasks') :
                    /\ facilityTasks' = Add(facilityTasks, t)
                    /\ t.now = clock /\ t.attempt = 1 /\ t.phase = "fetch"
              /\ facilityCache' = facilityCache
       /\ (facilityEvent'.name = "facilitiesReturn" /\ facilityEvent'.kind = "value") =>
              /\ GotArray(got')
              /\ \E t \in FacilityRunning :
                    /\ facilityTasks' = Remove(facilityTasks, t)
                    /\ facilityCache' = [present |-> TRUE, value |-> facilityEvent'.value,
                                         expiresAt |-> t.now + 86400000]]_allVars

\* C17 witness: a call made at time 0 returns 24 h later; the entry it
\* stores expires at 0 + 24 h, the very ms of its return
C17_Witness ==
    /\ facilityEvent.name = "facilitiesReturn" /\ facilityEvent.kind = "value"
    /\ Len(facilityCache.value) = 2
    /\ facilityCache.expiresAt = 86400000
    /\ clock = 86400000

\* C17 witness: a live entry is served
C17_WitnessCached ==
    /\ facilityEvent.name = "getFacilities" /\ facilityEvent.kind = "value"
    /\ Len(facilityEvent.value) = 2

\* the error a failed fetch throws, by what ended it
Cause(answer) ==
    CASE answer.kind = "ok" -> "shape"
      [] answer.kind = "status" -> "status"
      [] answer.kind = "throws" -> "transport"
      [] OTHER -> "aborted"

\* C18: when a getFacilities call that went upstream, or a getAvailability
\* call that found the slot empty, ends other than by a 2xx with an array,
\* it throws the error of its fetch and the step leaves the cache slot as it
\* was; getFacilities returns only the live entry or what its own fetch
\* brought, never an expired entry.
C18_FetchErrorsPropagate ==
    [][/\ (FacilityCallEnds /\ ~GotArray(got')) =>
              /\ facilityEvent'.kind = "error"
              /\ facilityEvent'.err = Cause(got')
              /\ facilityCache' = facilityCache
       /\ (facilityEvent'.kind = "value" /\ UNCHANGED availabilityRest) =>
              \/ facilityEvent'.name = "getFacilities" /\ clock < facilityCache.expiresAt
              \/ facilityEvent'.name = "facilitiesReturn" /\ GotArray(got')
       /\ ((\E t \in Running : t.kind = "sync" /\ tasks' = Remove(tasks, t)) /\ ~GotArray(got')) =>
              /\ event'.name = "syncReturn"
              /\ event'.kind = "error"
              /\ event'.err = Cause(got')
              /\ availabilityCache' = availabilityCache]_allVars

\* C18 witness: the third attempt of a getFacilities call was answered with
\* a status while the cache holds an expired entry; the call has thrown
C18_Witness ==
    /\ got.kind = "status"
    /\ facilityEvent.name = "facilitiesReturn" /\ facilityEvent.kind = "error"
    /\ facilityEvent.err = "status"
    /\ facilityCache.present /\ facilityCache.expiresAt <= clock

\* C18 witness: a getAvailability call on the empty slot has thrown
C18_WitnessAvailability ==
    /\ got.kind = "throws"
    /\ event.name = "syncReturn" /\ event.kind = "error" /\ event.err = "transport"
    /\ ~availabilityCache.present

\* the items of an upstream array that are objects and normalize to a record
WellFormed(items) ==
    {i \in 1..Len(items) :
        items[i].object /\ normalizeFacilityMetadata(items[i].props, config).some}

\* their records, in upstream order
Kept(items) ==
    [k \in 1..Cardinality(WellFormed(items)) |->
        LET i == CHOOSE i \in WellFormed(items) :
                    Cardinality({j \in WellFormed(items) : j <= i}) = k
        IN  normalizeFacilityMetadata(items[i].props, config)]

\* C19: a refresh answered with an array succeeds whatever the array holds,
\* and the snapshot it stores and returns is exactly the normalized records
\* of the well-formed items: for facilities in upstream order (in body F the
\* record without latitude and the non-object are left out, in body G the
\* records with an empty name and with a latitude that is no number), for
\* availability by id (C10's Snapshot).
C19_MalformedRecordsDropped ==
    /\ (GotArray(got) /\ facilityStarted > 0) =>
          /\ facilityEvent.name = "facilitiesReturn" /\ facilityEvent.kind = "value"
          /\ facilityEvent.value = Kept(FacilityBodies[got.key].items)
          /\ facilityCache.present
          /\ facilityCache.value = facilityEvent.value
          /\ got.key = "F" =>
                /\ Len(facilityEvent.value) = 2
                /\ facilityEvent.value[1].id = "f1" /\ facilityEvent.value[1].lat = 59
                /\ facilityEvent.value[2].id = "3" /\ facilityEvent.value[2].lat = 3
                /\ facilityEvent.value[2].lon = 7
          /\ got.key = "G" =>
                /\ Len(facilityEvent.value) = 2
                /\ facilityEvent.value[1].id = "f4" /\ facilityEvent.value[2].id = "f1"
    /\ (GotArray(got) /\ started > 0) =>
          /\ event.name \in {"syncReturn", "revalidated"} /\ event.kind # "error"
          /\ availabilityCache.present
          /\ availabilityCache.value = Snapshot(Bodies[got.key].items)
          /\ event.name = "syncReturn" => event.data = availabilityCache.value
          /\ got.key = "B" => DOMAIN availabilityCache.value = {"a", "7"}

\* C19 witness: getFacilities has stored and returned the two well-formed
\* records of body F, whose four items include one without latitude and a
\* non-object
C19_Witness ==
    /\ got = Ok("F")
    /\ facilityEvent.kind = "value"
    /\ Len(FacilitiesF.items) = 4
    /\ Len(facilityCache.value) = 2
    /\ facilityCache.value[2].sourceUrl = "u3"
    /\ facilityCache.value[1].sourceUrl = "https://api.stockholmparkering.se/facilities"

\* C19 witness: an availability refresh has stored the records of body B
C19_WitnessAvailability ==
    /\ got = Ok("B")
    /\ DOMAIN availabilityCache.value = {"a", "7"}

(***************************************************************************)
(* The walk estimate.                                                      *)
(***************************************************************************)
\* C21: for every whole distance d, estimateWalkMinutes(d) is 0 when
\* d <= 0 and otherwise the smallest whole m with 80 * m >= d.
C21_WalkMinutes ==
    walking.phase = "done" =>
        LET d == walking.distanceMeters
            m == walking.returned
        IN  IF d <= 0
            THEN m = 0
            ELSE /\ 80 * m >= d
                 /\ 80 * (m - 1) < d

\* the estimate of 81 metres is 2 minutes
C21_Witness ==
    /\ walking.phase = "done"
    /\ walking.distanceMeters = 81
    /\ walking.returned = 2

(***************************************************************************)
(* The delays of fetchWithRetries.                                         *)
(***************************************************************************)
\* the attempt that got r failed, with a retryable status or because fetch
\* rejected (network failure, timeout)
FailedRetryably(r) == GotRetryable(r) \/ r.kind = "throws"

\* C22: after failed attempt n, n = 1 or 2, the call sleeps 200 * 2^(n-1)
\* ms, 200 then 400, the same after a retryable status as after a transport
\* or timeout error, and the delay logged is the delay slept; after the
\* third attempt it sleeps no more.
C22_BackoffDelays ==
    /\ \A n \in 1..Len(call.received) :
          (n < 3 /\ FailedRetryably(call.received[n])) =>
              /\ Len(call.slept) >= n
              /\ call.slept[n] = (IF n = 1 THEN 200 ELSE 400)
              /\ \E j \in 1..Len(call.log) :
                    call.log[j].attempt = n /\ call.log[j].delay = call.slept[n]
    /\ Len(call.slept) <= 2
    /\ Len(call.received) = 3 => call.phase # "sleep"

\* C22 witness: a status, then a timeout, then a status again: two delays
\* and the call has ended
C22_Witness ==
    /\ Len(call.received) = 3
    /\ GotRetryable(call.received[1])
    /\ call.received[2] = Throws
    /\ GotRetryable(call.received[3])
    /\ call.slept = <<200, 400>>
    /\ call.phase = "thrown"

\* C22 witness: a timeout, then a status
C22_WitnessErrorFirst ==
    /\ Len(call.received) = 2
    /\ call.received[1] = Throws
    /\ GotRetryable(call.received[2])
    /\ call.slept = <<200, 400>>
    /\ call.phase = "sleep"

(***************************************************************************)
(* Overlapping getFacilities calls.                                        *)
(***************************************************************************)
\* C23: a getFacilities call made while the entry is missing or expired
\* starts a fetch of its own however many fetches are in flight (N
\* overlapping calls, N fetches); the end of a fetch answers one caller and
\* leaves the others waiting; and a fetch that succeeds replaces the entry
\* by what it fetched, nothing of the entry before it kept.
C23_EachCallFetches ==
    /\ [](BagCardinality(facilityTasks) <= facilityStarted)
    /\ [][/\ (facilityEvent'.name = "getFacilities"
                  /\ ~(facilityCache.present /\ clock < facilityCache.expiresAt)) =>
                  /\ BagCardinality(facilityTasks') = BagCardinality(facilityTasks) + 1
                  /\ facilityStarted' = facilityStarted + 1
                  /\ \A t \in FacilityRunning :
                        CopiesIn(t, facilityTasks') >= CopiesIn(t, facilityTasks)
          /\ facilityEvent'.name = "facilitiesReturn" =>
                  /\ BagCardinality(facilityTasks') = BagCardinality(facilityTasks) - 1
                  /\ facilityStarted' = facilityStarted
          /\ (facilityEvent'.name = "facilitiesReturn" /\ facilityEvent'.kind = "value") =>
                  /\ GotArray(got')
                  /\ facilityCache'.present
                  /\ facilityCache'.value = Kept(FacilityBodies[got'.key].items)
                  /\ facilityEvent'.value = facilityCache'.value]_allVars

\* C23 witness: two calls made while the entry was missing, two fetches in
\* flight
C23_Witness ==
    /\ ~facilityCache.present
    /\ facilityStarted = 2
    /\ BagCardinality(facilityTasks) = 2
    /\ \A t \in FacilityRunning : t.phase = "fetch"

\* C23 witness: the second of two overlapping fetches has overwritten what
\* the first stored: body G over body F, whose third record G does not have
C23_WitnessOverwritten ==
    /\ facilityStarted = 2 /\ facilityTasks = EmptyBag
    /\ clock = 0
    /\ got = Ok("G")
    /\ facilityEvent.name = "facilitiesReturn"
    /\ facilityCache.value = Kept(FacilitiesG.items)
    /\ \A i \in 1..Len(facilityCache.value) : facilityCache.value[i].id # "3"

(***************************************************************************)
(* Facility records.                                                       *)
(***************************************************************************)
\* the value is a non-empty string, or a number, whose text is one
ResolvesToString(v) == (v.t = "string" /\ v.s # "") \/ v.t = "number"

\* the value is a number, or text that spells one
ResolvesToNumber(v) == v.t = "number" \/ (v.t = "string" /\ v.s \in {"0", "3", "7"})

\* C24: normalizeFacilityMetadata returns a record only when the id and
\* the name resolve to a non-empty string and the latitude and the
\* longitude to a finite number; a coordinate that is absent, null, an empty
\* string or text that is no number, under whichever accepted name, makes it
\* return none.
C24_NoneUnlessAllResolve ==
    (normalizing.phase = "done" /\ normalizing.returned.some) =>
        /\ ResolvesToString(normalizing.given.idValue)
        /\ ResolvesToString(normalizing.given.nameValue)
        /\ ResolvesToNumber(normalizing.given.latValue)
        /\ ResolvesToNumber(normalizing.given.lonValue)

(***************************************************************************)
(* The in-flight handle of the availability slot.                          *)
(***************************************************************************)
HandleSet == availabilityCache.revalidatePromise

BackgroundRunning == \E t \in Running : t.kind = "background"

\* C25: whenever the in-flight handle of the availability slot is set a
\* background refresh is running; a handle that is set is cleared later (a
\* success replaces the entry, a failure clears the handle); and background
\* refreshes do not run for ever.
C25_HandleIsCleared ==
    /\ [](HandleSet => BackgroundRunning)
    /\ HandleSet ~> ~HandleSet
    /\ BackgroundRunning ~> ~BackgroundRunning

\* C25 witness: a background refresh has used up its attempts and its
\* failure has cleared the handle
C25_Witness ==
    /\ event.name = "revalidateFailed"
    /\ event.err # "aborted"
    /\ availabilityCache.present /\ ~HandleSet
    /\ ~BackgroundRunning

\* C25 witness: the handle is set and its refresh is asleep between two
\* attempts
C25_WitnessInFlight ==
    /\ HandleSet
    /\ \E t \in Running : t.kind = "background" /\ t.phase = "sleep" /\ t.attempt = 2

(***************************************************************************)
(* The response to a request whose deadline fired.                         *)
(***************************************************************************)
\* the request failed with what the deadline aborted the cache calls with
FailedByDeadline ==
    /\ request.phase = "responded"
    /\ request.deadline
    /\ request.thrown = OperationTimedOut

\* C26: a recommendFacility request that fails because its overall
\* deadline fired and cancelled the cache fetches is answered with 504
\* 'Request timed out', not with 500 'Internal server error'.
C26_DeadlineIs504 ==
    FailedByDeadline => (request.status = 504 /\ request.body = "Request timed out")

(***************************************************************************)
(* The expiry of the entries.                                              *)
(***************************************************************************)
\* C27: whatever the interleaving of overlapping refreshes, the expiresAt
\* of the facility entry and of the availability entry never decreases: no
\* write replaces an entry by one that expires earlier.
C27_ExpiresAtNeverDecreases ==
    [][/\ (facilityCache.present /\ facilityCache'.present) =>
              facilityCache'.expiresAt >= facilityCache.expiresAt
       /\ (availabilityCache.present /\ availabilityCache'.present) =>
              availabilityCache'.expiresAt >= availabilityCache.expiresAt]_allVars

====
